---- MODULE Spec2Model ----
(***************************************************************************)
(* Model of DoDfin (src/DoD_tool.py): the Difference-of-DEMs workflow.     *)
(*                                                                         *)
(* A raster is a record [rows, cols, cellsize, cells]; cells is the        *)
(* row-major sequence of its cells.  A cell is a record [valid, v]: a      *)
(* NoData cell has valid = FALSE, a data cell carries its value v.         *)
(* Elevations and thresholds are integers in units of 5 mm (0.2 m = 40),   *)
(* all of them even, so that the mean of two values is exact.              *)
(*                                                                         *)
(* The raster operators follow the ArcGIS Spatial Analyst map algebra the  *)
(* script calls: every local operator yields NoData where an input cell is *)
(* NoData, relational and Boolean operators yield 1 / 0 on data cells, and *)
(* Con leaves a cell NoData where its condition is NoData.                 *)
(***************************************************************************)
EXTENDS Integers, Sequences, FiniteSets

VARIABLES dem_later, dem_earlier, mLoD,
          dod, dod_mask, dod_binary, dod_filtered, erosion, erosion_stats,
          saved, reads, pc

vars == <<dem_later, dem_earlier, mLoD,
          dod, dod_mask, dod_binary, dod_filtered, erosion, erosion_stats,
          saved, reads, pc>>

-----------------------------------------------------------------------------
(* Bounds of the generated inputs *)

\* columns of the generated one-row rasters
MaxCols == 2

\* cell size of the generated rasters
CellSize == 2

\* elevations a generated cell may hold (units of 5 mm)
Elevations == {0, 20, 60}

\* thresholds a run may be invoked with, as float(mLoD) yields them:
\* -1 m, 0, the default 0.2 m, 0.3 m
MLoDValues == {-200, 0, 40, 60}

-----------------------------------------------------------------------------
(* Cells and rasters *)

NODATA == [valid |-> FALSE, v |-> 0]

Data(x) == [valid |-> TRUE, v |-> x]

Min(a, b) == IF a <= b THEN a ELSE b

Max(a, b) == IF a >= b THEN a ELSE b

EmptyRaster == [rows |-> 0, cols |-> 0, cellsize |-> 0, cells |-> << >>]

CellAt(g, r, c) == g.cells[(r - 1) * g.cols + c]

RowOf(i, cols) == ((i - 1) \div cols) + 1

ColOf(i, cols) == ((i - 1) % cols) + 1

-----------------------------------------------------------------------------
(* Cell-wise map algebra *)

\* Raster - Raster
MinusCell(a, b) ==
    IF a.valid /\ b.valid THEN Data(a.v - b.v) ELSE NODATA

\* GreaterThanCell with the comparison made inclusive
GreaterEqualCell(a, k) ==
    IF a.valid THEN Data(IF a.v >= k THEN 1 ELSE 0) ELSE NODATA

\* Raster > number
GreaterThanCell(a, k) ==
    IF a.valid THEN Data(IF a.v > k THEN 1 ELSE 0) ELSE NODATA

\* Raster < number
LessThanCell(a, k) ==
    IF a.valid THEN Data(IF a.v < k THEN 1 ELSE 0) ELSE NODATA

\* Raster | Raster (Boolean Or)
BooleanOrCell(a, b) ==
    IF a.valid /\ b.valid
    THEN Data(IF a.v # 0 \/ b.v # 0 THEN 1 ELSE 0)
    ELSE NODATA

\* TimesCell with NoData taken as the number 0
TimesCellZero(a, b) ==
    Data((IF a.valid THEN a.v ELSE 0) * (IF b.valid THEN b.v ELSE 0))

\* Raster * Raster
TimesCell(a, b) ==
    IF a.valid /\ b.valid THEN Data(a.v * b.v) ELSE NODATA

\* Con(condition, true value, false value)
ConCell(cond, t, f) ==
    IF cond.valid THEN Data(IF cond.v # 0 THEN t ELSE f) ELSE NODATA

-----------------------------------------------------------------------------
(* Raster operators.  A local operator on two rasters works on the         *)
(* intersection of their extents at the coarser cell size (the geo-        *)
(* processing defaults); the rasters of the model share their upper-left   *)
(* corner, so the intersection is the common leading rows and columns.     *)

\* Raster(dem_later) - Raster(dem_earlier)
Minus(a, b) ==
    LET rows == Min(a.rows, b.rows)
        cols == Min(a.cols, b.cols)
    IN  [rows |-> rows, cols |-> cols,
         cellsize |-> Max(a.cellsize, b.cellsize),
         cells |-> [i \in 1..(rows * cols) |->
                      MinusCell(CellAt(a, RowOf(i, cols), ColOf(i, cols)),
                                CellAt(b, RowOf(i, cols), ColOf(i, cols)))]]

\* ThresholdCell with the lower bound not negated
ThresholdCellNoNegate(d, m) ==
    BooleanOrCell(GreaterThanCell(d, m), LessThanCell(d, m))

\* (dod > float(mLoD)) | (dod < -float(mLoD)), one cell
ThresholdCell(d, m) ==
    BooleanOrCell(GreaterThanCell(d, m), LessThanCell(d, -m))

\* (dod > float(mLoD)) | (dod < -float(mLoD))
ThresholdMask(d, m) ==
    [d EXCEPT !.cells = [i \in DOMAIN d.cells |-> ThresholdCell(d.cells[i], m)]]

\* RemapValue([[0, "NODATA"], [1, 1]]), one cell: NoData stays NoData and a
\* value the table does not list keeps its value (missing_values = DATA)
ReclassCell(a) ==
    IF ~a.valid THEN NODATA
    ELSE IF a.v = 0 THEN NODATA
    ELSE IF a.v = 1 THEN Data(1)
    ELSE a

\* Reclassify(dod_mask, "Value", RemapValue([[0, "NODATA"], [1, 1]]))
Reclassify(mask) ==
    [mask EXCEPT !.cells = [i \in DOMAIN mask.cells |-> ReclassCell(mask.cells[i])]]

\* dod_binary * dod
Times(a, b) ==
    LET rows == Min(a.rows, b.rows)
        cols == Min(a.cols, b.cols)
    IN  [rows |-> rows, cols |-> cols,
         cellsize |-> Max(a.cellsize, b.cellsize),
         cells |-> [i \in 1..(rows * cols) |->
                      TimesCell(CellAt(a, RowOf(i, cols), ColOf(i, cols)),
                                CellAt(b, RowOf(i, cols), ColOf(i, cols)))]]

\* Con(dod_filtered < 0, 1, 0), one cell
ErosionCell(f) ==
    ConCell(LessThanCell(f, 0), 1, 0)

\* Con(dod_filtered < 0, 1, 0)
ErosionMask(f) ==
    [f EXCEPT !.cells = [i \in DOMAIN f.cells |-> ErosionCell(f.cells[i])]]

-----------------------------------------------------------------------------
(* Zonal statistics *)

\* the k-th smallest of the values f[i], i in S (1 <= k <= |S|)
KthSmallest(S, f, k) ==
    CHOOSE x \in {f[i].v : i \in S} :
        /\ Cardinality({i \in S : f[i].v < x}) < k
        /\ k <= Cardinality({i \in S : f[i].v <= x})

\* Median taking the lower of the two middle values
MedianLower(S, f) ==
    KthSmallest(S, f, (Cardinality(S) + 1) \div 2)

\* MEDIAN of a floating-point value raster over the cells S of one zone:
\* the middle value, or the mean of the two middle values (the 50th
\* percentile, interpolated linearly for floating-point values)
Median(S, f) ==
    LET n == Cardinality(S)
    IN  IF n % 2 = 1
        THEN KthSmallest(S, f, (n + 1) \div 2)
        ELSE (KthSmallest(S, f, n \div 2) + KthSmallest(S, f, (n \div 2) + 1)) \div 2

\* the cells of zone z that enter its statistics: ignore_nodata = "DATA"
\* leaves the cells whose value is NoData out
ZoneCells(zones, values, z) ==
    {i \in DOMAIN zones.cells :
        /\ zones.cells[i].valid
        /\ zones.cells[i].v = z
        /\ values.cells[i].valid}

\* the distinct values of the zone raster; NoData is no zone
ZoneValues(zones) ==
    {zones.cells[i].v : i \in {j \in DOMAIN zones.cells : zones.cells[j].valid}}

\* arcpy.ia.ZonalStatisticsAsTable(erosion, "Value", dod_filtered, ...,
\* ignore_nodata = "DATA", statistics_type = "ALL"): one record per zone value
\* of the zone raster (every value, 0 as well as 1), none for a zone raster
\* without a data cell.  Of the statistics of "ALL" the record keeps COUNT,
\* AREA, MIN, MAX and MEDIAN.
ZonalStatisticsAsTable(zones, values) ==
    {[Value  |-> z,
      COUNT  |-> Cardinality(ZoneCells(zones, values, z)),
      AREA   |-> Cardinality(ZoneCells(zones, values, z))
                    * zones.cellsize * zones.cellsize,
      MIN    |-> KthSmallest(ZoneCells(zones, values, z), values.cells, 1),
      MAX    |-> KthSmallest(ZoneCells(zones, values, z), values.cells,
                             Cardinality(ZoneCells(zones, values, z))),
      MEDIAN |-> Median(ZoneCells(zones, values, z), values.cells)] :
        z \in {y \in ZoneValues(zones) : ZoneCells(zones, values, y) # {}}}

\* arcpy.management.AddField(erosion_stats, "Volume", "DOUBLE"): the new
\* field is null in every record
AddField(table) ==
    {[Value |-> r.Value, COUNT |-> r.COUNT, AREA |-> r.AREA, MIN |-> r.MIN,
      MAX |-> r.MAX, MEDIAN |-> r.MEDIAN, Volume |-> NODATA] : r \in table}

\* VolumeExpression with the cell count in place of the area
VolumeExpressionCount(r) ==
    r.COUNT * r.MEDIAN

\* the expression "!AREA! * !MEDIAN!" on one record
VolumeExpression(r) ==
    r.AREA * r.MEDIAN

\* arcpy.management.CalculateField(erosion_stats, "Volume", "!AREA! * !MEDIAN!")
CalculateField(table) ==
    {[r EXCEPT !.Volume = Data(VolumeExpression(r))] : r \in table}

-----------------------------------------------------------------------------
(* Inputs *)

CellValues == {NODATA} \cup {Data(e) : e \in Elevations}

\* the generated rasters: one row, 1..MaxCols columns
Rasters ==
    UNION {{[rows |-> 1, cols |-> n, cellsize |-> CellSize, cells |-> cs] :
              cs \in [1..n -> CellValues]} : n \in 1..MaxCols}

\* a 3 x 3 pair whose difference is
\* [[0.5,-0.5,0.1],[0.3,-0.3,0],[0.05,-0.05,0.25]] m
ScenarioLater ==
    [rows |-> 3, cols |-> 3, cellsize |-> CellSize,
     cells |-> <<Data(100), Data(-100), Data(20),
                 Data(60),  Data(-60),  Data(0),
                 Data(10),  Data(-10),  Data(50)>>]

ScenarioEarlier ==
    [rows |-> 3, cols |-> 3, cellsize |-> CellSize,
     cells |-> [i \in 1..9 |-> Data(0)]]

InputPairs ==
    (Rasters \X Rasters) \cup {<<ScenarioLater, ScenarioEarlier>>}

-----------------------------------------------------------------------------
(* DoDfin, one action per step of the script *)

Init ==
    /\ \E p \in InputPairs : dem_later = p[1] /\ dem_earlier = p[2]
    /\ mLoD \in MLoDValues
    /\ dod = EmptyRaster
    /\ dod_mask = EmptyRaster
    /\ dod_binary = EmptyRaster
    /\ dod_filtered = EmptyRaster
    /\ erosion = EmptyRaster
    /\ erosion_stats = {}
    /\ saved = {}
    /\ reads = {}
    /\ pc = "Start"

\* Step 1: dod = Raster(dem_later) - Raster(dem_earlier); dod.save(dod_raw)
Step1_RawDifference ==
    /\ pc = "Start"
    /\ dod' = Minus(dem_later, dem_earlier)
    /\ saved' = saved \cup {"dod_raw"}
    /\ reads' = {"dem_later", "dem_earlier"}
    /\ pc' = "RawDifference"
    /\ UNCHANGED <<dem_later, dem_earlier, mLoD, dod_mask, dod_binary,
                   dod_filtered, erosion, erosion_stats>>

\* Step 2: dod_mask = (dod > mLoD) | (dod < -mLoD); save
Step2_ThresholdMask ==
    /\ pc = "RawDifference"
    /\ dod_mask' = ThresholdMask(dod, mLoD)
    /\ saved' = saved \cup {"dod_threshold_mask"}
    /\ reads' = {"dod_raw"}
    /\ pc' = "ThresholdMasked"
    /\ UNCHANGED <<dem_later, dem_earlier, mLoD, dod, dod_binary,
                   dod_filtered, erosion, erosion_stats>>

\* Step 3: dod_binary = Reclassify(dod_mask, ...); save
Step3_Reclassify ==
    /\ pc = "ThresholdMasked"
    /\ dod_binary' = Reclassify(dod_mask)
    /\ saved' = saved \cup {"dod_reclass"}
    /\ reads' = {"dod_threshold_mask"}
    /\ pc' = "Reclassified"
    /\ UNCHANGED <<dem_later, dem_earlier, mLoD, dod, dod_mask,
                   dod_filtered, erosion, erosion_stats>>

\* Step 4: dod_filtered = dod_binary * dod; save
Step4_Filter ==
    /\ pc = "Reclassified"
    /\ dod_filtered' = Times(dod_binary, dod)
    /\ saved' = saved \cup {"dod_thresholded"}
    /\ reads' = {"dod_reclass", "dod_raw"}
    /\ pc' = "Filtered"
    /\ UNCHANGED <<dem_later, dem_earlier, mLoD, dod, dod_mask,
                   dod_binary, erosion, erosion_stats>>

\* Step5_Erosion moved ahead of the filter step
Step5_ErosionEarly ==
    /\ pc = "Reclassified"
    /\ erosion' = ErosionMask(dod_filtered)
    /\ saved' = saved \cup {"erosion_mask"}
    /\ reads' = {"dod_thresholded"}
    /\ pc' = "ErosionIsolated"
    /\ UNCHANGED <<dem_later, dem_earlier, mLoD, dod, dod_mask,
                   dod_binary, dod_filtered, erosion_stats>>

\* Step 5: erosion = Con(dod_filtered < 0, 1, 0); save
Step5_Erosion ==
    /\ pc = "Filtered"
    /\ erosion' = ErosionMask(dod_filtered)
    /\ saved' = saved \cup {"erosion_mask"}
    /\ reads' = {"dod_thresholded"}
    /\ pc' = "ErosionIsolated"
    /\ UNCHANGED <<dem_later, dem_earlier, mLoD, dod, dod_mask,
                   dod_binary, dod_filtered, erosion_stats>>

\* Step 6: ZonalStatisticsAsTable(erosion, "Value", dod_filtered, erosion_stats)
Step6_ZonalStatistics ==
    /\ pc = "ErosionIsolated"
    /\ erosion_stats' = ZonalStatisticsAsTable(erosion, dod_filtered)
    /\ saved' = saved \cup {"erosion_stats"}
    /\ reads' = {"erosion_mask", "dod_thresholded"}
    /\ pc' = "Aggregated"
    /\ UNCHANGED <<dem_later, dem_earlier, mLoD, dod, dod_mask,
                   dod_binary, dod_filtered, erosion>>

\* Step 7a: AddField(erosion_stats, "Volume", "DOUBLE")
Step7_AddField ==
    /\ pc = "Aggregated"
    /\ erosion_stats' = AddField(erosion_stats)
    /\ saved' = saved \cup {"Volume"}
    /\ reads' = {"erosion_stats"}
    /\ pc' = "FieldAdded"
    /\ UNCHANGED <<dem_later, dem_earlier, mLoD, dod, dod_mask,
                   dod_binary, dod_filtered, erosion>>

\* Step 7b: CalculateField(erosion_stats, "Volume", "!AREA! * !MEDIAN!")
Step7_CalculateField ==
    /\ pc = "FieldAdded"
    /\ erosion_stats' = CalculateField(erosion_stats)
    /\ reads' = {"erosion_stats"}
    /\ pc' = "VolumeComputed"
    /\ UNCHANGED <<dem_later, dem_earlier, mLoD, dod, dod_mask,
                   dod_binary, dod_filtered, erosion, saved>>

Next ==
    \/ Step1_RawDifference
    \/ Step2_ThresholdMask
    \/ Step3_Reclassify
    \/ Step4_Filter
    \/ Step5_Erosion
    \/ Step6_ZonalStatistics
    \/ Step7_AddField
    \/ Step7_CalculateField

Spec == Init /\ [][Next]_vars

-----------------------------------------------------------------------------
(* Vocabulary of the properties *)

Abs(x) == IF x < 0 THEN -x ELSE x

\* the cells of a mask that are true
TrueCells(mask) == {i \in DOMAIN mask.cells : mask.cells[i] = Data(1)}

\* the difference value d is valid and beyond the threshold m
Exceeds(d, m) == d.valid /\ (d.v > m \/ d.v < -m)

\* two rasters agree in rows, columns and cell size
Compatible(a, b) ==
    a.rows = b.rows /\ a.cols = b.cols /\ a.cellsize = b.cellsize

\* the artifacts in the order of the stages
StageOrder ==
    <<"dod_raw", "dod_threshold_mask", "dod_reclass", "dod_thresholded",
      "erosion_mask", "erosion_stats", "Volume">>

\* the artifact whose production leads to control state p
ArtifactOf(p) ==
    CASE p = "RawDifference"   -> {"dod_raw"}
      [] p = "ThresholdMasked" -> {"dod_threshold_mask"}
      [] p = "Reclassified"    -> {"dod_reclass"}
      [] p = "Filtered"        -> {"dod_thresholded"}
      [] p = "ErosionIsolated" -> {"erosion_mask"}
      [] p = "Aggregated"      -> {"erosion_stats"}
      [] p = "FieldAdded"      -> {"Volume"}
      [] p = "VolumeComputed"  -> {"Volume"}
      [] OTHER                 -> {}

\* what the stage that led to control state p may read if it takes only the
\* artifact of the stage before it (the first stage: the two input grids)
PredecessorOf(p) ==
    CASE p = "RawDifference"   -> {"dem_later", "dem_earlier"}
      [] p = "ThresholdMasked" -> {"dod_raw"}
      [] p = "Reclassified"    -> {"dod_threshold_mask"}
      [] p = "Filtered"        -> {"dod_reclass"}
      [] p = "ErosionIsolated" -> {"dod_thresholded"}
      [] p = "Aggregated"      -> {"erosion_mask"}
      [] p = "FieldAdded"      -> {"erosion_stats"}
      [] p = "VolumeComputed"  -> {"erosion_stats"}
      [] OTHER                 -> {}

\* the artifacts saved so far are a leading part of the stage order
SavedInOrder ==
    \E n \in 0..Len(StageOrder) : saved = {StageOrder[k] : k \in 1..n}

-----------------------------------------------------------------------------
(* C1: threshold filter *)

\* C1 as stated: once the threshold mask is saved by a run on compatible
\* grids with mLoD >= 0, a mask cell is true exactly where the difference is
\* valid and beyond +-mLoD, and where the difference is NoData the mask cell
\* is false (the number 0), never NoData.
C1_NoDataIsFalse ==
    (/\ "dod_threshold_mask" \in saved
     /\ mLoD >= 0
     /\ Compatible(dem_later, dem_earlier)) =>
        \A i \in DOMAIN dod.cells :
            /\ (dod_mask.cells[i] = Data(1)) <=> Exceeds(dod.cells[i], mLoD)
            /\ ~dod.cells[i].valid => dod_mask.cells[i] = Data(0)

\* C1 amended: once the threshold mask is saved by a run with mLoD >= 0, the
\* mask has the shape of the difference grid, a mask cell is true exactly
\* where the difference is valid and beyond +-mLoD, it is false where the
\* difference is valid and within +-mLoD, and it is NoData (neither true nor
\* false) where the difference is NoData.
C1_ThresholdMask ==
    ("dod_threshold_mask" \in saved /\ mLoD >= 0) =>
        /\ DOMAIN dod_mask.cells = DOMAIN dod.cells
        /\ \A i \in DOMAIN dod.cells :
            /\ (dod_mask.cells[i] = Data(1)) <=> Exceeds(dod.cells[i], mLoD)
            /\ (dod.cells[i].valid /\ ~Exceeds(dod.cells[i], mLoD))
                   => dod_mask.cells[i] = Data(0)
            /\ ~dod.cells[i].valid => dod_mask.cells[i] = NODATA

\* a saved mask with a true cell and a cell whose difference is NoData
C1_Witness ==
    /\ "dod_threshold_mask" \in saved
    /\ mLoD > 0
    /\ \E i, j \in DOMAIN dod.cells :
        /\ dod_mask.cells[i] = Data(1)
        /\ ~dod.cells[j].valid

-----------------------------------------------------------------------------
(* C2: erosion isolator *)

\* C2 as stated: once the erosion mask is saved by a run on compatible grids
\* with mLoD >= 0, each of its cells is 1 where the filtered difference is
\* valid and negative and 0 everywhere else, NoData cells of the filtered
\* difference included.
C2_ErosionTwoValued ==
    (/\ "erosion_mask" \in saved
     /\ mLoD >= 0
     /\ Compatible(dem_later, dem_earlier)) =>
        \A i \in DOMAIN dod_filtered.cells :
            erosion.cells[i] =
                IF dod_filtered.cells[i].valid /\ dod_filtered.cells[i].v < 0
                THEN Data(1) ELSE Data(0)

-----------------------------------------------------------------------------
(* C3: change classifier and filter *)

\* C3: once the filtered difference is saved, each of its cells holds a
\* value exactly when both input elevations are valid and
\* |later - earlier| > mLoD, that value is later - earlier, and every other
\* cell is NoData (not the number 0).
C3_FilteredDifference ==
    "dod_thresholded" \in saved =>
        /\ dod_filtered.rows = Min(dem_later.rows, dem_earlier.rows)
        /\ dod_filtered.cols = Min(dem_later.cols, dem_earlier.cols)
        /\ DOMAIN dod_filtered.cells = 1..(dod_filtered.rows * dod_filtered.cols)
        /\ \A i \in DOMAIN dod_filtered.cells :
            LET l == CellAt(dem_later, RowOf(i, dod_filtered.cols),
                            ColOf(i, dod_filtered.cols))
                e == CellAt(dem_earlier, RowOf(i, dod_filtered.cols),
                            ColOf(i, dod_filtered.cols))
                kept == l.valid /\ e.valid /\ Abs(l.v - e.v) > mLoD
            IN  /\ dod_filtered.cells[i].valid <=> kept
                /\ kept => dod_filtered.cells[i] = Data(l.v - e.v)
                /\ ~kept => dod_filtered.cells[i] = NODATA

\* a saved filtered difference with a kept cell, and a cell dropped to NoData
\* either for a NoData input or for a change within the threshold
C3_Witness ==
    /\ "dod_thresholded" \in saved
    /\ mLoD >= 0
    /\ \E i, j \in DOMAIN dod_filtered.cells :
        /\ dod_filtered.cells[i].valid
        /\ dod_filtered.cells[i].v # 0
        /\ dod_filtered.cells[j] = NODATA
        /\ dod.cells[j].valid

-----------------------------------------------------------------------------
(* C4: negative threshold *)

\* C4 as stated: a run invoked with mLoD < 0 (on compatible grids) never
\* completes and produces no threshold mask, binary reclass, filtered
\* difference, erosion mask or statistics table.
C4_NegativeThresholdRejected ==
    (mLoD < 0 /\ Compatible(dem_later, dem_earlier)) =>
        /\ pc # "VolumeComputed"
        /\ saved \cap {"dod_threshold_mask", "dod_reclass", "dod_thresholded",
                       "erosion_mask", "erosion_stats", "Volume"} = {}

-----------------------------------------------------------------------------
(* C5: incompatible inputs *)

\* C5 as stated: a run (with mLoD >= 0) whose input grids differ in rows,
\* columns or cell size never completes and produces none of the artifacts.
C5_IncompatibleRejected ==
    (mLoD >= 0 /\ ~Compatible(dem_later, dem_earlier)) =>
        /\ pc # "VolumeComputed"
        /\ saved = {}

-----------------------------------------------------------------------------
(* C6: no-erosion result *)

\* C6 as stated: for compatible grids and mLoD >= 0, when no cell of the
\* erosion mask is 1 the statistics table, once produced, has no record, and
\* the run goes on through the Volume step.
C6_NoErosionEmptyTable ==
    (/\ Compatible(dem_later, dem_earlier)
     /\ mLoD >= 0
     /\ "erosion_stats" \in saved
     /\ TrueCells(erosion) = {}) =>
        /\ erosion_stats = {}
        /\ (pc # "VolumeComputed" => ENABLED Next)

-----------------------------------------------------------------------------
(* C7: volume identity *)

\* C7: when the run has finished, every record of the statistics table has
\* a Volume equal to its own AREA times its own MEDIAN, where MEDIAN is the
\* median of the filtered difference over the valid cells of the record's
\* zone and AREA is their number times the cell area; between AddField and
\* CalculateField the field is null in every record.
C7_VolumeIdentity ==
    /\ pc = "FieldAdded" => \A r \in erosion_stats : r.Volume = NODATA
    /\ pc = "VolumeComputed" =>
        \A r \in erosion_stats :
            LET zone == {i \in DOMAIN erosion.cells :
                            /\ erosion.cells[i] = Data(r.Value)
                            /\ dod_filtered.cells[i].valid}
            IN  /\ r.Volume = Data(r.AREA * r.MEDIAN)
                /\ r.AREA = Cardinality(zone) * erosion.cellsize * erosion.cellsize
                /\ r.MEDIAN = Median(zone, dod_filtered.cells)

\* a finished run whose table holds an erosion record with a volume
C7_Witness ==
    /\ pc = "VolumeComputed"
    /\ \E r \in erosion_stats :
        r.Value = 1 /\ r.COUNT = 2 /\ r.Volume.valid /\ r.Volume.v < 0

-----------------------------------------------------------------------------
(* C8: stage ordering *)

\* C8 as stated: in a run on compatible grids with mLoD >= 0 the artifacts
\* saved so far are always a leading part of the fixed stage order, and the
\* stage that ran last read nothing but the artifact of the stage
\* immediately before it.
C8_SolePredecessorInput ==
    (mLoD >= 0 /\ Compatible(dem_later, dem_earlier)) =>
        /\ SavedInOrder
        /\ ArtifactOf(pc) \subseteq saved
        /\ reads \subseteq PredecessorOf(pc)

\* C8, one step: a step of a run keeps to the stage order: it saves at most one
\* artifact, the next of the order; it reads the artifact of the stage
\* before it and otherwise only artifacts saved earlier (or the input
\* grids); and it leaves every raster already saved, and the zones of a
\* table already saved, as they are
C8_OrderedStep ==
    /\ \/ saved' = saved
       \/ /\ Cardinality(saved) < Len(StageOrder)
          /\ saved' = saved \cup {StageOrder[Cardinality(saved) + 1]}
    /\ saved' # saved => ArtifactOf(pc') = saved' \ saved
    /\ PredecessorOf(pc') \subseteq reads'
    /\ reads' \subseteq saved \cup {"dem_later", "dem_earlier"}
    /\ "dod_raw" \in saved => dod' = dod
    /\ "dod_threshold_mask" \in saved => dod_mask' = dod_mask
    /\ "dod_reclass" \in saved => dod_binary' = dod_binary
    /\ "dod_thresholded" \in saved => dod_filtered' = dod_filtered
    /\ "erosion_mask" \in saved => erosion' = erosion
    /\ "erosion_stats" \in saved =>
           {r.Value : r \in erosion_stats'} = {r.Value : r \in erosion_stats}
    /\ pc # "VolumeComputed"

\* C8 amended: in every run the artifacts are produced in the fixed order
\* raw difference, threshold mask, binary reclassification, filtered
\* difference, erosion mask, statistics table, Volume field; each is
\* produced at most once, no stage runs before its predecessor's artifact
\* exists, there is no back-transition or branch, and each stage reads its
\* predecessor's artifact and otherwise only artifacts produced earlier
\* (the filter also reads the raw difference, the aggregation also reads
\* the filtered difference).
C8_StageOrder ==
    /\ [](SavedInOrder /\ ArtifactOf(pc) \subseteq saved)
    /\ [][C8_OrderedStep]_vars

\* a finished run: all seven artifacts saved, the last step read the table
C8_Witness ==
    /\ pc = "VolumeComputed"
    /\ saved = {StageOrder[k] : k \in 1..Len(StageOrder)}
    /\ reads = {"erosion_stats"}

-----------------------------------------------------------------------------
(* C9: threshold monotonicity *)

\* the thresholds compared: those a run may be invoked with, and one more
Thresholds == MLoDValues \cup {20, 120}

\* C9: for the difference grid of every run and all thresholds
\* 0 <= m1 <= m2, the cells true in the mask computed with m2 are among the
\* cells true in the mask computed with m1.
C9_ThresholdMonotone ==
    "dod_raw" \in saved =>
        \A m1, m2 \in Thresholds :
            (0 <= m1 /\ m1 <= m2) =>
                TrueCells(ThresholdMask(dod, m2))
                    \subseteq TrueCells(ThresholdMask(dod, m1))

\* a run whose saved mask is true somewhere and is strictly smaller than the
\* mask a lower threshold gives for the same difference grid
C9_Witness ==
    /\ "dod_threshold_mask" \in saved
    /\ TrueCells(dod_mask) # {}
    /\ \E m1 \in Thresholds :
        /\ 0 <= m1 /\ m1 < mLoD
        /\ TrueCells(dod_mask) # TrueCells(ThresholdMask(dod, m1))

-----------------------------------------------------------------------------
(* C10: end-to-end scenario B *)

\* C10: the finished run on the 3 x 3 scenario pair with mLoD = 0.2 m has
\* the threshold mask true exactly at cells (0,0),(0,1),(1,0),(1,1),(2,2),
\* the erosion mask 1 exactly at cells (0,1),(1,1), and exactly one zone-1
\* record, with area 2 x cell area, median -0.4 m and Volume = area x -0.4.
C10_ScenarioB ==
    (/\ dem_later = ScenarioLater
     /\ dem_earlier = ScenarioEarlier
     /\ mLoD = 40
     /\ pc = "VolumeComputed") =>
        /\ TrueCells(dod_mask) = {1, 2, 4, 5, 9}
        /\ TrueCells(erosion) = {2, 5}
        /\ Cardinality({r \in erosion_stats : r.Value = 1}) = 1
        /\ \A r \in erosion_stats :
            r.Value = 1 =>
                /\ r.AREA = 2 * CellSize * CellSize
                /\ r.MEDIAN = -80
                /\ r.Volume = Data(2 * CellSize * CellSize * (-80))

\* the finished run on the scenario pair with mLoD = 0.2 m
C10_Witness ==
    /\ dem_later = ScenarioLater
    /\ dem_earlier = ScenarioEarlier
    /\ mLoD = 40
    /\ pc = "VolumeComputed"
    /\ \E r \in erosion_stats : r.Value = 1

====
